---- MODULE Spec2Model ----
(***************************************************************************)
(* A model of shush (src/src/shush/__init__.py): the Arguments / Command   *)
(* builders, Command.flatten, and Pipeline.check, the engine that runs the *)
(* stages of a pipeline as operating-system processes joined by pipes.     *)
(*                                                                         *)
(* Python strings are sequences of one-character strings, byte strings are *)
(* sequences of byte values, and every Python value carries its type in a  *)
(* field t.                                                                *)
(***************************************************************************)
EXTENDS Integers, Sequences, FiniteSets, TLC

VARIABLES
    \* FlattenSpec: the Command being flattened and the argument vector
    fcmd, fout,
    \* BuildSpec: the Context, the Command under construction, the last builder call
    bsh, bcmd, blast, bhist,
    \* Spec: the Pipeline (or Command) value the builder operators act on
    cur, nset, lasttail,
    \* Spec: Pipeline.__gt__ / Pipeline.check, its locals and the processes
    pc, sink, stdout, stdin, r, w, stdout_, i, wbuf, handles, chans, procs, waited,
    proc, err,
    \* HeapSpec: the objects of the Python process by address, the last builder
    \* call and the number of calls
    heap, hlast, hn,
    \* CombineSpec: two Argument Sets, a key with two values, and the results
    cmb, cres,
    \* AssocSpec: three operands of `|` and the two compositions of them
    ain, aout,
    \* ForgiveSpec: the body and the predicate of a forgive block, the position
    \* in it, the predicates called, the value of predicate(error), the outcome
    gin, gpc, gcalls, gval, gout

fvars == <<fcmd, fout>>
bvars == <<bsh, bcmd, blast, bhist>>
rvars == <<cur, nset, lasttail, pc, sink, stdout, stdin, r, w, stdout_, i, wbuf, handles,
           chans, procs, waited, proc, err>>
hvars == <<heap, hlast, hn>>
cvars == <<cmb, cres>>
avars == <<ain, aout>>
gvars == <<gin, gpc, gcalls, gval, gout>>
\* the variables of the specifications that follow the first three, and all
\* variables but those of one of them
xvars == <<hvars, cvars, avars, gvars>>
butH == <<fvars, bvars, rvars, cvars, avars, gvars>>
butC == <<fvars, bvars, rvars, hvars, avars, gvars>>
butA == <<fvars, bvars, rvars, hvars, cvars, gvars>>
butG == <<fvars, bvars, rvars, hvars, cvars, avars>>
vars == <<fvars, bvars, rvars, xvars>>

----------------------------------------------------------------------------
(* Bounds of the model. *)

\* the most positional values of an Argument Set
MaxArgs == 3
\* the most options of an Argument Set
MaxOpts == 2
\* the most stages of a pipeline
MaxStages == 3
\* the longest bytes input source
MaxLen == 3
\* the longest text input source, in code points
MaxText == 2
\* the capacity of an OS pipe buffer, in bytes (65536 on Linux), scaled down
PipeCap == 2
\* the most builder calls in one construction
MaxOps == 4

----------------------------------------------------------------------------
(* Sequences. *)

RECURSIVE Concat(_)
\* the concatenation of a sequence of sequences
Concat(ss) == IF ss = <<>> THEN <<>> ELSE Head(ss) \o Concat(Tail(ss))

RECURSIVE JoinWith(_, _)
\* sep.join(ss)
JoinWith(sep, ss) ==
    IF ss = <<>> THEN <<>>
    ELSE IF Len(ss) = 1 THEN ss[1]
    ELSE ss[1] \o sep \o JoinWith(sep, Tail(ss))

Min(a, b) == IF a <= b THEN a ELSE b

\* the sequences over S of length at most n
SeqsUpTo(S, n) == UNION {[1..k -> S] : k \in 0..n}

----------------------------------------------------------------------------
(* Python values. *)

None == [t |-> "none"]
Bool(b) == [t |-> "bool", b |-> b]
Str(s) == [t |-> "str", s |-> s]
PyInt(n) == [t |-> "int", n |-> n]
List(e) == [t |-> "list", e |-> e]
Tuple(e) == [t |-> "tuple", e |-> e]
\* a byte string whose bytes are the codes of the characters s
BytesLit(s) == [t |-> "byteslit", s |-> s]

True == Bool(TRUE)
False == Bool(FALSE)

\* `v is True`, `v is False`, `v is None`
IsTrue(v) == v.t = "bool" /\ v.b
IsFalse(v) == v.t = "bool" /\ ~v.b
IsNone(v) == v.t = "none"

Digit(d) == CASE d = 0 -> "0" [] d = 1 -> "1" [] d = 2 -> "2" [] d = 3 -> "3"
              [] d = 4 -> "4" [] d = 5 -> "5" [] d = 6 -> "6" [] d = 7 -> "7"
              [] d = 8 -> "8" [] d = 9 -> "9"

RECURSIVE Digits(_)
\* the decimal digits of a natural number
Digits(n) == IF n < 10 THEN <<Digit(n)>> ELSE Digits(n \div 10) \o <<Digit(n % 10)>>

RECURSIVE PyRepr(_)
\* repr(v)
PyRepr(v) ==
    CASE v.t = "none" -> <<"N", "o", "n", "e">>
      [] v.t = "bool" -> IF v.b THEN <<"T", "r", "u", "e">> ELSE <<"F", "a", "l", "s", "e">>
      [] v.t = "int" -> IF v.n < 0 THEN <<"-">> \o Digits(0 - v.n) ELSE Digits(v.n)
      [] v.t = "str" -> <<"'">> \o v.s \o <<"'">>
      [] v.t = "byteslit" -> <<"b", "'">> \o v.s \o <<"'">>
      [] v.t = "list" ->
           <<"[">> \o JoinWith(<<",", " ">>, [k \in 1..Len(v.e) |-> PyRepr(v.e[k])]) \o <<"]">>
      [] v.t = "tuple" ->
           <<"(">> \o JoinWith(<<",", " ">>, [k \in 1..Len(v.e) |-> PyRepr(v.e[k])])
                   \o (IF Len(v.e) = 1 THEN <<",">> ELSE <<>>) \o <<")">>

\* str(v): a string is itself, everything else is its repr
PyStr(v) == IF v.t = "str" THEN v.s ELSE PyRepr(v)

\* isinstance(v, (str, bytes))
IsStrOrBytes(v) == v.t \in {"str", "byteslit"}
\* isinstance(v, collections.abc.Sequence), for a value that is no str or bytes
IsSequence(v) == v.t \in {"list", "tuple"}

----------------------------------------------------------------------------
(* Ordered dictionaries: sequences of <<key, value>> with distinct keys, in *)
(* insertion order.                                                        *)

Keys(d) == {d[k][1] : k \in 1..Len(d)}
HasKey(d, key) == key \in Keys(d)
Lookup(d, key) == (CHOOSE k \in 1..Len(d) : d[k][1] = key)
Get(d, key) == d[Lookup(d, key)][2]

\* d[key] = v: an old key keeps its place, a new one goes last
DictSet(d, key, v) ==
    IF HasKey(d, key) THEN [d EXCEPT ![Lookup(d, key)] = <<key, v>>]
    ELSE Append(d, <<key, v>>)

RECURSIVE DictMergeKeep(_, _)
\* a merge in which a key of a keeps its value
DictMergeKeep(a, b) ==
    IF b = <<>> THEN a
    ELSE DictMergeKeep(IF HasKey(a, b[1][1]) THEN a ELSE Append(a, b[1]), Tail(b))

RECURSIVE DictMerge(_, _)
\* {**a, **b}
DictMerge(a, b) == IF b = <<>> THEN a ELSE DictMerge(DictSet(a, b[1][1], b[1][2]), Tail(b))

----------------------------------------------------------------------------
(* option, Arguments, Command.flatten *)

\* name.replace('_', '-')
Kebab(name) == [k \in 1..Len(name) |-> IF name[k] = "_" THEN "-" ELSE name[k]]

\* option(name)
option(name) == IF Len(name) = 1 THEN <<"-">> \o name ELSE <<"-", "-">> \o Kebab(name)

\* Arguments(args, kwargs)
Arguments(args, kwargs) == [args |-> args, kwargs |-> kwargs]

\* Arguments(): the default Argument Set
EmptyArguments == Arguments(<<>>, <<>>)

\* a combination in which an option self has keeps its value
ArgumentsCallKeep(self, args, kwargs) ==
    Arguments(self.args \o args, DictMergeKeep(self.kwargs, kwargs))

\* a combination in which a stdin self has keeps its value
ArgumentsCallKeepStdin(self, args, kwargs) ==
    LET merged == DictMerge(self.kwargs, kwargs)
    IN  Arguments(self.args \o args,
                  IF HasKey(self.kwargs, "stdin")
                  THEN DictSet(merged, "stdin", Get(self.kwargs, "stdin"))
                  ELSE merged)

\* Arguments.__call__(self, *args, **kwargs)
ArgumentsCall(self, args, kwargs) ==
    Arguments(self.args \o args, DictMerge(self.kwargs, kwargs))

\* Command(program, popen, argv)
Command(program, popen, argv) ==
    [t |-> "Command", program |-> program, popen |-> popen, argv |-> argv]

\* the tokens of one option when a valued option is always two tokens
flattenOptionSeparate(k, v) ==
    IF IsTrue(v) THEN <<Str(option(k))>>
    ELSE <<Str(option(k)), Str(PyStr(v))>>

\* the tokens of one option
flattenOption(k, v) ==
    IF IsTrue(v) THEN <<Str(option(k))>>
    ELSE IF Len(k) = 1 THEN <<Str(option(k)), Str(PyStr(v))>>
    ELSE <<Str(option(k) \o <<"=">> \o PyStr(v))>>

\* positionals that recurse into nested collections
RECURSIVE flattenPositionalDeep(_)
flattenPositionalDeep(v) ==
    IF IsFalse(v) \/ IsNone(v) THEN <<>>
    ELSE IF IsStrOrBytes(v) THEN <<v>>
    ELSE IF IsSequence(v)
         THEN Concat([k \in 1..Len(v.e) |->
                        IF IsSequence(v.e[k]) THEN flattenPositionalDeep(v.e[k])
                        ELSE <<Str(PyStr(v.e[k]))>>])
    ELSE <<Str(PyStr(v))>>

\* the tokens of one positional value
flattenPositional(v) ==
    IF IsFalse(v) \/ IsNone(v) THEN <<>>
    ELSE IF IsStrOrBytes(v) THEN <<v>>
    ELSE IF IsSequence(v) THEN [k \in 1..Len(v.e) |-> Str(PyStr(v.e[k]))]
    ELSE <<Str(PyStr(v))>>

\* Command.flatten(self)
flatten(self) ==
    <<Str(self.program)>>
      \o Concat([k \in 1..Len(self.argv.kwargs) |->
                   flattenOption(self.argv.kwargs[k][1], self.argv.kwargs[k][2])])
      \o Concat([k \in 1..Len(self.argv.args) |-> flattenPositional(self.argv.args[k])])

----------------------------------------------------------------------------
(* The values no specification changes while another one runs. *)

Nil == [t |-> "nil"]

HInitIdle == heap = <<>> /\ hlast = Nil /\ hn = 0
CInitIdle == cmb = Nil /\ cres = Nil
AInitIdle == ain = Nil /\ aout = Nil
GInitIdle == gin = Nil /\ gpc = "off" /\ gcalls = <<>> /\ gval = Nil /\ gout = "pending"

\* every later specification but the one named is idle
XIdleExcept(name) ==
    /\ IF name = "Heap" THEN TRUE ELSE HInitIdle
    /\ IF name = "Combine" THEN TRUE ELSE CInitIdle
    /\ IF name = "Assoc" THEN TRUE ELSE AInitIdle
    /\ IF name = "Forgive" THEN TRUE ELSE GInitIdle

XInitIdle == XIdleExcept("")

Echo == <<"e", "c", "h", "o">>
Cat == <<"c", "a", "t">>
FalseProg == <<"f", "a", "l", "s", "e">>
Ls == <<"l", "s">>
NoSuch == <<"n", "o", "s", "u", "c", "h">>

----------------------------------------------------------------------------
(* FlattenSpec: Command.flatten applied to the Commands of a bounded set.  *)

\* positional values: false, none, text, bytes, the number 0, a list, and a
\* tuple holding a nested list and a none
PosValues ==
    { False, None, Str(<<"a">>), BytesLit(<<"z">>), PyInt(0),
      List(<<Str(<<"b">>), Str(<<"c">>)>>),
      Tuple(<<List(<<Str(<<"d">>)>>), None>>) }

\* option names: one character, and several with an underscore
OptKeys == { <<"x">>, <<"f", "_", "b">> }
OptValues == { True, Str(<<"v">>), PyInt(1) }

\* the option mappings of at most n entries, in every insertion order
OptDicts(n) ==
    { d \in SeqsUpTo(OptKeys \X OptValues, n) :
        \A j, k \in 1..Len(d) : j # k => d[j][1] # d[k][1] }

FlattenInputs ==
    { Command(Echo, EmptyArguments, Arguments(a, d)) :
        a \in SeqsUpTo(PosValues, MaxArgs), d \in OptDicts(MaxOpts) }

FInitIdle == fcmd = Nil /\ fout = Nil

FlattenInit == fcmd \in FlattenInputs /\ fout = Nil

\* fout = fcmd.flatten(), a list
DoFlatten ==
    /\ fout = Nil
    /\ fout' = List(flatten(fcmd))
    /\ UNCHANGED <<fcmd, bvars, rvars, xvars>>

----------------------------------------------------------------------------
(* Redirection sources and sinks, and the subprocess constants.            *)

\* subprocess.PIPE, subprocess.DEVNULL, subprocess.STDOUT
PIPE == [t |-> "PIPE"]
DEVNULL == [t |-> "DEVNULL"]
STDOUT == [t |-> "STDOUT"]

\* a text (str) value, as its code points
Text(cp) == [t |-> "text", cp |-> cp]
\* a bytes value
Bytes(b) == [t |-> "bytes", b |-> b]
\* a pathlib.Path
Path(name) == [t |-> "path", name |-> name]
\* a file name given as str or as bytes
StrPath(name) == [t |-> "strpath", name |-> name]
BytesPath(name) == [t |-> "bytespath", name |-> name]
\* an open file object: handle h of the variable handles
FileObj(h) == [t |-> "file", h |-> h]

\* the UTF-8 bytes of one code point below 2048
EncodeChar(c) == IF c < 128 THEN <<c>> ELSE <<192 + (c \div 64), 128 + (c % 64)>>

\* str.encode()
Encode(cp) == Concat([k \in 1..Len(cp) |-> EncodeChar(cp[k])])

\* Shell(popen, stdout)
Shell(popen, stdout_arg) == [t |-> "Shell", popen |-> popen, stdout |-> stdout_arg]
\* Shell.there, Shell.here, Shell.nowhere
there(self) == Shell(self.popen, None)
here(self) == Shell(self.popen, PIPE)
nowhere(self) == Shell(self.popen, DEVNULL)

\* Shell.__getattr__(self, program)
ShellGetattr(self, program) == Command(program, self.popen, EmptyArguments)

\* Command.__call__(self, *args, **kwargs)
CommandCall(self, args, kwargs) ==
    Command(self.program, self.popen, ArgumentsCall(self.argv, args, kwargs))

\* Pipeline(commands, stdin)
Pipeline(commands, stdin_arg) == [t |-> "Pipeline", commands |-> commands, stdin |-> stdin_arg]

\* pipe(x)
pipe(x) == IF x.t = "Pipeline" THEN x ELSE Pipeline(<<x>>, None)

\* a composition that puts the stages of its right operand first
PipelineOrSwap(self, tail) == Pipeline(pipe(tail).commands \o self.commands, self.stdin)

\* a composition that takes the input of its right operand when it has one
PipelineOrTailInput(self, tail) ==
    Pipeline(self.commands \o pipe(tail).commands,
             IF IsNone(pipe(tail).stdin) THEN self.stdin ELSE pipe(tail).stdin)

\* Pipeline.__or__(self, tail)
PipelineOr(self, tail) == Pipeline(self.commands \o pipe(tail).commands, self.stdin)

\* a guard that takes an empty text or bytes input for no input
LtAllowedFalsy(self) ==
    \/ IsNone(self.stdin)
    \/ self.stdin.t = "text" /\ self.stdin.cp = <<>>
    \/ self.stdin.t = "bytes" /\ self.stdin.b = <<>>

\* the assertion of Pipeline.__lt__: self.stdin is None
LtAllowed(self) == IsNone(self.stdin)

\* Pipeline.__lt__(self, stdin), past its assertion
PipelineLt(self, stdin_arg) == Pipeline(self.commands, stdin_arg)

\* the sink mapping that takes every Context for "inherit"
GtStdoutInherit(s) ==
    IF IsNone(s) THEN DEVNULL
    ELSE IF s.t = "Shell" THEN None
    ELSE s

\* Pipeline.__gt__: the value passed on to check, before a str is opened
GtStdout(s) ==
    IF IsNone(s) THEN DEVNULL
    ELSE IF s.t = "Shell" THEN s.stdout
    ELSE s

----------------------------------------------------------------------------
(* The builder calls of Shell, Command and Proxy.  The names of launch     *)
(* parameters (the keys of popen.kwargs) are strings.                      *)

\* a dict value
Dict(d) == [t |-> "dict", d |-> d]

\* os.environ, the environment of the Python process
OsEnviron == Dict(<<<<"HOME", "/root">>>>)

\* os.environ | env
EnvironOr(env) == Dict(DictMerge(OsEnviron.d, env.d))

\* Shell.__call__(self, *args, **kwargs)
ShellCall(self, args, kwargs) == Shell(ArgumentsCall(self.popen, args, kwargs), self.stdout)

\* Shell.__matmul__(self, path)
ShellMatmul(self, path) ==
    Shell(ArgumentsCall(self.popen, <<>>, <<<<"cwd", path>>>>), self.stdout)

\* Shell.__mod__(self, env)
ShellMod(self, env) ==
    Shell(ArgumentsCall(self.popen, <<>>, <<<<"env", EnvironOr(env)>>>>), self.stdout)

\* Command.__matmul__(self, path)
CommandMatmul(self, path) ==
    Command(self.program, ArgumentsCall(self.popen, <<>>, <<<<"cwd", path>>>>), self.argv)

\* Command.__mod__(self, env)
CommandMod(self, env) ==
    Command(self.program, ArgumentsCall(self.popen, <<>>, <<<<"env", EnvironOr(env)>>>>),
            self.argv)

\* Proxy.__call__: command.kwarg(value)
ProxyCall(c, kwarg, value) ==
    Command(c.program, ArgumentsCall(c.popen, <<>>, <<<<kwarg, value>>>>), c.argv)

\* an assertion that only a Command joined before fails
JoinAllowedUnlessJoined(self) ==
    ~(HasKey(self.popen.kwargs, "stderr") /\ Get(self.popen.kwargs, "stderr") = STDOUT)

\* the assertion of Command.join: 'stderr' not in self.popen.kwargs
JoinAllowed(self) == ~HasKey(self.popen.kwargs, "stderr")

\* Command.join(self), past its assertion
CommandJoin(self) ==
    Command(self.program, ArgumentsCall(self.popen, <<>>, <<<<"stderr", STDOUT>>>>), self.argv)

----------------------------------------------------------------------------
(* The operating system: open files (handles), what they are open on       *)
(* (chans: files, pipes, the parent's own streams, the null device) and    *)
(* the processes.  A handle is an open file object or descriptor of the    *)
(* Python process; a process holds its own copies of what it was given.    *)

\* the content of the file that the path and the caller's handle name
InContent == <<104, 105>>

\* the programs on the search path
Installed == {Echo, Cat, FalseProg, Ls}

\* the byte of a character
Ord(c) == CASE c = "a" -> 97 [] c = "x" -> 120 [] OTHER -> 63

\* what `echo` writes: its arguments, space separated, and a newline
EchoBytes(argv) ==
    JoinWith(<<32>>, [k \in 1..(Len(argv) - 1) |->
                        [j \in 1..Len(argv[k + 1].s) |-> Ord(argv[k + 1].s[j])]]) \o <<10>>

\* what `ls` of a missing file writes to its standard error
LsMessage == <<33>>

NewHandle(c, mode, by) == [chan |-> c, mode |-> mode, open |-> TRUE, by |-> by, closes |-> 0]
NewChan(kind, buf) == [kind |-> kind, buf |-> buf]

\* the channel of a kind there is one of: the parent's streams, the null device
TheChan(kind) == CHOOSE c \in 1..Len(chans) : chans[c].kind = kind

\* f.close()
CloseHandle(hs, h) == [hs EXCEPT ![h].open = FALSE, ![h].closes = @ + 1]

HasReader(c) ==
    \/ \E k \in 1..Len(procs) : procs[k].state = "running" /\ procs[k].in = c
    \/ \E h \in 1..Len(handles) : handles[h].open /\ handles[h].mode = "r" /\ handles[h].chan = c
    \/ chans[c].kind # "pipe"

HasWriter(c) ==
    \/ \E k \in 1..Len(procs) : procs[k].state = "running" /\ procs[k].out = c
    \/ \E h \in 1..Len(handles) : handles[h].open /\ handles[h].mode = "w" /\ handles[h].chan = c

\* how many of `want` bytes a write to channel c takes now: a pipe takes what
\* it has room for, every other target takes all
Room(c, want) ==
    IF chans[c].kind = "pipe" THEN Min(PipeCap - Len(chans[c].buf), want) ELSE want

\* what is written to the null device is dropped
Written(c, bytes) ==
    IF chans[c].kind = "null" THEN chans ELSE [chans EXCEPT ![c].buf = @ \o bytes]

\* what a program has to write when it starts, and the status it exits with
ProgramOutput(program, argv, joined) ==
    CASE program = Echo -> EchoBytes(argv)
      [] program = Ls -> IF joined THEN LsMessage ELSE <<>>
      [] OTHER -> <<>>

ProgramStatus(program) ==
    CASE program = FalseProg -> 1
      [] program = Ls -> 2
      [] OTHER -> 0

\* the status of a process killed by SIGPIPE
SigPipe == 0 - 13

Exited(k, status) == [procs EXCEPT ![k].state = "exited", ![k].status = status]

\* one step of process k: it writes what it has to write, copies its input
\* when it is `cat`, and exits; wrote records what it has written so far
ProcStep(k) ==
    /\ k \in 1..Len(procs)
    /\ procs[k].state = "running"
    /\ LET p == procs[k]
           copying == p.program = Cat /\ p.todo = <<>> /\ chans[p.in].buf # <<>>
           data == IF copying THEN chans[p.in].buf ELSE p.todo
           n == Room(p.out, Len(data))
       IN  IF data # <<>>
           THEN IF ~HasReader(p.out)
                THEN /\ procs' = Exited(k, SigPipe)
                     /\ UNCHANGED chans
                ELSE /\ n > 0
                     /\ chans' = IF copying
                                 THEN [Written(p.out, SubSeq(data, 1, n))
                                         EXCEPT ![p.in].buf = SubSeq(data, n + 1, Len(data))]
                                 ELSE Written(p.out, SubSeq(data, 1, n))
                     /\ procs' = [procs EXCEPT
                                    ![k].todo = IF copying THEN @ ELSE SubSeq(data, n + 1, Len(data)),
                                    ![k].wrote = @ \o SubSeq(data, 1, n)]
           ELSE /\ p.program = Cat => ~(chans[p.in].kind = "pipe" /\ HasWriter(p.in))
                /\ procs' = Exited(k, ProgramStatus(p.program))
                /\ UNCHANGED chans
    /\ UNCHANGED <<cur, nset, lasttail, pc, sink, stdout, stdin, r, w, stdout_, i, wbuf, handles,
                   waited, proc, err>>
    /\ UNCHANGED <<fvars, bvars, xvars>>

----------------------------------------------------------------------------
(* The builder operators applied before a run, and Pipeline.check.         *)

\* the Commands a run is composed of, all made from the Context
\* Shell().here: sh.echo('a'), the same with a standard output of its own,
\* sh.cat, the same with a standard input of its own, sh.false, sh.ls('x')
\* for a file x that does not exist, the same joined, and a program that is
\* not installed
RunShell == here(Shell(EmptyArguments, None))

RunCommands ==
    { CommandCall(ShellGetattr(RunShell, Echo), <<Str(<<"a">>)>>, <<>>),
      ProxyCall(CommandCall(ShellGetattr(RunShell, Echo), <<Str(<<"a">>)>>, <<>>),
                "stdout", DEVNULL),
      ShellGetattr(RunShell, Cat),
      ProxyCall(ShellGetattr(RunShell, Cat), "stdin", DEVNULL),
      ShellGetattr(RunShell, FalseProg),
      CommandCall(ShellGetattr(RunShell, Ls), <<Str(<<"x">>)>>, <<>>),
      CommandJoin(CommandCall(ShellGetattr(RunShell, Ls), <<Str(<<"x">>)>>, <<>>)),
      ShellGetattr(RunShell, NoSuch) }

\* the text and the bytes that input sources are prefixes of
TextPattern == [k \in 1..MaxText |-> IF k % 2 = 1 THEN 233 ELSE 97]
BytePattern == [k \in 1..MaxLen |-> IF k % 2 = 1 THEN 97 ELSE 98]

\* the operands of `<`: nothing, text, bytes, a path, the caller's open file
Sources ==
    {None, Path("in"), FileObj(1)}
      \cup {Text(SubSeq(TextPattern, 1, k)) : k \in 0..MaxText}
      \cup {Bytes(SubSeq(BytePattern, 1, k)) : k \in 0..MaxLen}

\* the operands of `>`: the none value, a Context (there, here, nowhere), a
\* file name as str, as bytes and as a path, the caller's open file
Sinks ==
    {None, there(RunShell), here(RunShell), nowhere(RunShell),
     StrPath("out"), BytesPath("out"), Path("out"), FileObj(2)}

\* the caller's open file that is the input of a right operand of `|`, and
\* the content of that file
TailInput == FileObj(3)
TailContent == <<113>>

\* the right operands of `|`: a Command, or a Pipeline with an input of its own
Tails ==
    RunCommands \cup {Pipeline(<<ShellGetattr(RunShell, Cat)>>, Bytes(<<98>>)),
                      Pipeline(<<ShellGetattr(RunShell, Cat)>>, TailInput)}

RInitIdle ==
    /\ cur = Nil /\ nset = 0 /\ lasttail = Nil /\ pc = "off" /\ sink = Nil /\ stdout = Nil /\ stdin = Nil
    /\ r = Nil /\ w = Nil /\ stdout_ = Nil /\ i = 0 /\ wbuf = <<>> /\ handles = <<>>
    /\ chans = <<>> /\ procs = <<>> /\ waited = {} /\ proc = Nil /\ err = Nil

\* a Command, the caller's open files (one to read, one to write, and one to
\* read that is the input of a right operand of `|`), and the parent's own
\* standard input (at end of file) and output
RunInit ==
    /\ cur \in RunCommands
    /\ nset = 0
    /\ lasttail = Nil
    /\ pc = "build"
    /\ sink = Nil /\ stdout = Nil /\ stdin = Nil /\ r = Nil /\ w = Nil /\ stdout_ = Nil
    /\ i = 0
    /\ wbuf = <<>>
    /\ handles = <<NewHandle(1, "r", "caller"), NewHandle(2, "w", "caller"),
                   NewHandle(6, "r", "caller")>>
    /\ chans = <<NewChan("file", InContent), NewChan("file", <<>>),
                 NewChan("stdin", <<>>), NewChan("stdout", <<>>), NewChan("null", <<>>),
                 NewChan("file", TailContent)>>
    /\ procs = <<>>
    /\ waited = {}
    /\ proc = Nil
    /\ err = Nil

\* cur = cur | tail  (Command.__or__ is Pipeline([self]) | tail)
Or(tail) ==
    /\ pc = "build"
    /\ Len(pipe(cur).commands) + Len(pipe(tail).commands) <= MaxStages
    /\ cur' = PipelineOr(pipe(cur), tail)
    /\ lasttail' = tail
    /\ UNCHANGED <<nset, pc, sink, stdout, stdin, r, w, stdout_, i, wbuf, handles, chans,
                   procs, waited, proc, err>>
    /\ UNCHANGED <<fvars, bvars, xvars>>

\* cur = cur < source  (Command.__lt__ is Pipeline([self]) < stdin); nset
\* counts the inputs attached
Lt(source) ==
    /\ pc = "build"
    /\ IF LtAllowed(pipe(cur))
       THEN /\ cur' = PipelineLt(pipe(cur), source)
            /\ nset' = IF IsNone(source) THEN nset ELSE nset + 1
            /\ UNCHANGED <<pc, err>>
       ELSE /\ pc' = "raised"
            /\ err' = [type |-> "AssertionError"]
            /\ UNCHANGED <<cur, nset>>
    /\ UNCHANGED <<lasttail, sink, stdout, stdin, r, w, stdout_, i, wbuf, handles, chans,
                   procs, waited, proc>>
    /\ UNCHANGED <<fvars, bvars, xvars>>

\* the last stage of n, taken to be the first
LastIsFirst(n) == 0

\* last = n - 1
Last(n) == n - 1

\* every stage run with the checking call
MethodAlwaysCheck(idx, last) == "check"

\* the call that spawns stage idx: check for the last stage, start for the rest
Method(idx, last) == IF idx = last THEN "check" ELSE "start"

\* no close of the input of any stage
ShouldCloseNever(s, idx) == FALSE

\* a close of the input of the first stage only
ShouldCloseFirstOnly(s, idx) == ~IsNone(s) /\ idx = 0

\* `if stdin is not None`, after stage idx was spawned
ShouldClose(s, idx) == ~IsNone(s)

\* subprocess.run(check=True): a non-zero status raises CalledProcessError
RaisesOn(status) == status # 0

\* cur > s: Pipeline.__gt__ (Command.__gt__ is Pipeline([self]) > stdout) and
\* Pipeline.check up to its write of a bytes input
Gt(s) ==
    /\ pc = "build"
    /\ LET self == pipe(cur)
           mapped == GtStdout(s)
           \* a str sink: open(stdout, 'wb')
           opens == mapped.t = "strpath"
           h1 == IF opens THEN Append(handles, NewHandle(Len(chans) + 1, "w", "engine"))
                 ELSE handles
           c1 == IF opens THEN Append(chans, NewChan("file", <<>>)) ELSE chans
           \* stdin = self.stdin; a str is encoded
           src == IF self.stdin.t = "text" THEN Bytes(Encode(self.stdin.cp)) ELSE self.stdin
       IN  /\ stdout' = IF opens THEN FileObj(Len(h1)) ELSE mapped
           /\ CASE src.t = "bytes" ->
                     \* r, w = os.pipe(); w = open(w, 'wb', buffering=0)
                     /\ chans' = Append(c1, NewChan("pipe", <<>>))
                     /\ handles' = h1 \o <<NewHandle(Len(c1) + 1, "r", "engine"),
                                           NewHandle(Len(c1) + 1, "w", "engine")>>
                     /\ r' = FileObj(Len(h1) + 1)
                     /\ w' = FileObj(Len(h1) + 2)
                     /\ wbuf' = src.b
                     /\ stdin' = src
                     /\ pc' = "write"
                [] src.t = "path" ->
                     \* stdin = stdin.open('rb')
                     /\ chans' = Append(c1, NewChan("file", InContent))
                     /\ handles' = Append(h1, NewHandle(Len(c1) + 1, "r", "engine"))
                     /\ stdin' = FileObj(Len(h1) + 1)
                     /\ pc' = "spawn"
                     /\ UNCHANGED <<r, w, wbuf>>
                [] OTHER ->
                     /\ chans' = c1
                     /\ handles' = h1
                     /\ stdin' = src
                     /\ pc' = "spawn"
                     /\ UNCHANGED <<r, w, wbuf>>
    /\ sink' = s
    /\ stdout_' = PIPE
    /\ i' = 0
    /\ UNCHANGED <<cur, nset, lasttail, procs, waited, proc, err>>
    /\ UNCHANGED <<fvars, bvars, xvars>>

\* w.write(stdin); w.close(); stdin = open(r, 'rb', buffering=0): the write
\* puts into the pipe what the pipe has room for and waits for room for the
\* rest
WriteInput ==
    /\ pc = "write"
    /\ LET c == handles[w.h].chan
           n == Room(c, Len(wbuf))
       IN  /\ wbuf = <<>> \/ n > 0
           /\ chans' = Written(c, SubSeq(wbuf, 1, n))
           /\ wbuf' = SubSeq(wbuf, n + 1, Len(wbuf))
           /\ IF n = Len(wbuf)
              THEN /\ handles' = CloseHandle(handles, w.h)
                   /\ stdin' = r
                   /\ pc' = "spawn"
              ELSE UNCHANGED <<handles, stdin, pc>>
    /\ UNCHANGED <<cur, nset, lasttail, sink, stdout, r, w, stdout_, i, procs, waited, proc, err>>
    /\ UNCHANGED <<fvars, bvars, xvars>>

\* one iteration of the loop up to the call of start or check: the sink of the
\* last stage is opened when it is a file name, the stage's configuration
\* is combined with stdin and stdout, and the process is created
Spawn ==
    /\ pc = "spawn"
    /\ LET self == pipe(cur)
           n == Len(self.commands)
           last == Last(n)
           cmd == self.commands[i + 1]
           method == Method(i, last)
           so1 == IF i = last THEN stdout ELSE stdout_
           opens == i = last /\ so1.t \in {"strpath", "bytespath", "path"}
           h1 == IF opens THEN Append(handles, NewHandle(Len(chans) + 1, "w", "engine"))
                 ELSE handles
           c1 == IF opens THEN Append(chans, NewChan("file", <<>>)) ELSE chans
           so2 == IF opens THEN FileObj(Len(h1)) ELSE so1
           \* popen = self.popen(*args, **kwargs)
           popen == ArgumentsCall(cmd.popen, <<>>, <<<<"stdin", stdin>>, <<"stdout", so2>>>>)
           kin == Get(popen.kwargs, "stdin")
           kout == Get(popen.kwargs, "stdout")
           joined == HasKey(popen.kwargs, "stderr") /\ Get(popen.kwargs, "stderr") = STDOUT
           argv == flatten(cmd)
           \* Popen takes the file numbers of stdin and stdout before it looks
           \* for the program: a closed file is a ValueError, and only then is
           \* a program that is not installed a FileNotFoundError
           closed == \/ kin.t = "file" /\ ~h1[kin.h].open
                     \/ kout.t = "file" /\ ~h1[kout.h].open
           fails == closed \/ cmd.program \notin Installed
           newpipe == kout.t = "PIPE"
           c2 == IF newpipe
                 THEN Append(c1, NewChan(IF method = "check" THEN "capture" ELSE "pipe", <<>>))
                 ELSE c1
           \* Popen keeps the read end of a pipe it made; run() reads it itself
           h2 == IF newpipe /\ method = "start"
                 THEN Append(h1, NewHandle(Len(c2), "r", "engine"))
                 ELSE h1
           cin == CASE kin.t = "file" -> handles[kin.h].chan
                    [] kin.t = "DEVNULL" -> TheChan("null")
                    [] OTHER -> TheChan("stdin")
           cout == CASE kout.t = "PIPE" -> Len(c2)
                     [] kout.t = "DEVNULL" -> TheChan("null")
                     [] kout.t = "file" -> h1[kout.h].chan
                     [] OTHER -> TheChan("stdout")
       IN  /\ stdout_' = so2
           /\ IF fails
              THEN /\ handles' = h1
                   /\ chans' = c1
                   /\ pc' = "raised"
                   /\ err' = [type |-> IF closed THEN "ValueError" ELSE "FileNotFoundError"]
                   /\ UNCHANGED <<procs, proc>>
              ELSE /\ handles' = h2
                   /\ chans' = c2
                   /\ procs' = Append(procs,
                         [stage |-> i, program |-> cmd.program, argv |-> argv,
                          method |-> method, kwargs |-> popen.kwargs,
                          in |-> cin, out |-> cout, joined |-> joined,
                          todo |-> ProgramOutput(cmd.program, argv, joined),
                          wrote |-> <<>>, state |-> "running", status |-> 0])
                   /\ proc' = IF method = "start"
                              THEN [t |-> "Popen", k |-> Len(procs) + 1,
                                    stdout |-> IF newpipe THEN FileObj(Len(h2)) ELSE None]
                              ELSE proc
                   /\ pc' = IF method = "check" THEN "wait" ELSE "close"
                   /\ UNCHANGED err
    /\ UNCHANGED <<cur, nset, lasttail, sink, stdout, stdin, r, w, i, wbuf, waited>>
    /\ UNCHANGED <<fvars, bvars, xvars>>

\* subprocess.run(..., check=True) past its Popen: it reads the captured
\* output to its end, waits for the process and raises on a non-zero status
Wait ==
    /\ pc = "wait"
    /\ LET k == Len(procs)
           p == procs[k]
       IN  /\ p.state = "exited"
           /\ waited' = waited \cup {k}
           /\ IF RaisesOn(p.status)
              THEN /\ pc' = "raised"
                   /\ err' = [type |-> "CalledProcessError", returncode |-> p.status]
                   /\ UNCHANGED proc
              ELSE /\ pc' = "close"
                   /\ proc' = [t |-> "CompletedProcess", k |-> k, returncode |-> p.status,
                               stdout |-> IF Get(p.kwargs, "stdout") = PIPE
                                          THEN Bytes(chans[p.out].buf) ELSE None]
                   /\ UNCHANGED err
    /\ UNCHANGED <<cur, nset, lasttail, sink, stdout, stdin, r, w, stdout_, i, wbuf, handles, chans,
                   procs>>
    /\ UNCHANGED <<fvars, bvars, xvars>>

\* if stdin is not None: stdin.close(); stdin = proc.stdout; the next
\* iteration, or return proc
Close ==
    /\ pc = "close"
    /\ IF ShouldClose(stdin, i)
       THEN IF stdin.t = "file"
            THEN /\ handles' = CloseHandle(handles, stdin.h)
                 /\ pc' = IF i + 1 = Len(pipe(cur).commands) THEN "returned" ELSE "spawn"
                 /\ UNCHANGED err
            ELSE /\ pc' = "raised"
                 /\ err' = [type |-> "AttributeError"]
                 /\ UNCHANGED handles
       ELSE /\ pc' = IF i + 1 = Len(pipe(cur).commands) THEN "returned" ELSE "spawn"
            /\ UNCHANGED <<handles, err>>
    /\ stdin' = proc.stdout
    /\ i' = i + 1
    /\ UNCHANGED <<cur, nset, lasttail, sink, stdout, r, w, stdout_, wbuf, chans, procs, waited, proc>>
    /\ UNCHANGED <<fvars, bvars, xvars>>

Init ==
    /\ FInitIdle
    /\ bsh = Nil /\ bcmd = Nil /\ blast = Nil /\ bhist = <<>>
    /\ RunInit
    /\ XInitIdle

Next ==
    \/ \E tail \in Tails : Or(tail)
    \/ \E source \in Sources : Lt(source)
    \/ \E s \in Sinks : Gt(s)
    \/ WriteInput
    \/ Spawn
    \/ Wait
    \/ Close
    \/ \E k \in 1..MaxStages : ProcStep(k)

Spec == Init /\ [][Next]_vars

----------------------------------------------------------------------------
(* Claims about a pipeline run. *)

\* the Pipeline a run is of, and the number of its stages
ThePipeline == pipe(cur)
NStages == Len(ThePipeline.commands)

\* the sink is CAPTURE: a Context made with .here
SinkIsCapture == sink.t = "Shell" /\ sink.stdout = PIPE

\* the input handles the engine holds or has held: the read ends and files it
\* opened, and the caller's file when it is the input source
HeldInputs ==
    {h \in 1..Len(handles) :
        /\ handles[h].mode = "r"
        /\ handles[h].by = "engine" \/ ThePipeline.stdin = FileObj(h)}

\* C1: with every stage spawned, the run raises CalledProcessError exactly
\* when the last stage exits non-zero, the error carries that status, and
\* the status of no other stage changes the outcome
C1_FinalStatusDecides ==
    /\ pc = "returned" =>
         /\ Len(procs) = NStages
         /\ procs[NStages].state = "exited"
         /\ procs[NStages].status = 0
         /\ proc.returncode = 0
    /\ (pc = "raised" /\ Len(procs) = NStages) =>
         /\ err.type = "CalledProcessError"
         /\ procs[NStages].state = "exited"
         /\ procs[NStages].status # 0
         /\ err.returncode = procs[NStages].status
    /\ (pc = "raised" /\ err.type = "CalledProcessError") => Len(procs) = NStages
    /\ (Len(procs) = NStages /\ pc # "wait" /\ procs[NStages].state = "exited"
          /\ procs[NStages].status # 0) => pc = "raised"

\* a run of two stages has returned although its first stage exited with 1
C1_Witness ==
    /\ pc = "returned"
    /\ NStages = 2
    /\ procs[1].program = FalseProg
    /\ procs[1].state = "exited"
    /\ procs[1].status = 1

\* C4: when check returns, every input handle the engine held is closed, and
\* a handle the caller gave as the sink is open
C4_InputsClosedOnReturn ==
    pc = "returned" =>
      /\ \A h \in HeldInputs : ~handles[h].open
      /\ sink.t = "file" => handles[sink.h].open

\* a run of two stages with a text input and the caller's file as sink has
\* returned: the read end of the input pipe and that of the first stage's
\* output were both held
C4_Witness ==
    /\ pc = "returned"
    /\ NStages = 2
    /\ ThePipeline.stdin.t = "text"
    /\ sink.t = "file"
    /\ Cardinality(HeldInputs) = 2

\* C5: when a run ends by raising (a stage does not spawn, the last stage
\* exits non-zero), every input handle the engine held is closed
C5_InputsClosedOnRaise ==
    (pc = "raised" /\ err.type \in {"CalledProcessError", "FileNotFoundError"}) =>
      \A h \in HeldInputs : ~handles[h].open

\* C8: the handle returned holds captured bytes exactly when the sink is
\* CAPTURE, and then what the last stage wrote; otherwise it holds None
C8_CapturedIffCapture ==
    pc = "returned" =>
      /\ proc.stdout.t = "bytes" <=> SinkIsCapture
      /\ SinkIsCapture => proc.stdout = Bytes(procs[NStages].wrote)
      /\ ~SinkIsCapture => proc.stdout = None

\* a captured run of two stages that both wrote, differently
C8_Witness ==
    /\ pc = "returned"
    /\ SinkIsCapture
    /\ NStages = 2
    /\ procs[1].wrote # <<>>
    /\ procs[1].wrote # procs[2].wrote
    /\ proc.stdout = Bytes(procs[2].wrote)
    /\ procs[2].wrote # <<>>

\* the bytes of a text or bytes input source
SourceBytes(src) == IF src.t = "text" THEN Encode(src.cp) ELSE src.b

\* a run of the single stage `cat` with a text or bytes input and the
\* capture sink
IsCatRoundTrip ==
    /\ pc \notin {"build", "off"}
    /\ NStages = 1
    /\ ThePipeline.commands[1].program = Cat
    /\ ThePipeline.stdin.t \in {"text", "bytes"}
    /\ SinkIsCapture

\* C9: a run of `cat` alone with a text or bytes input of any length and the
\* capture sink goes on until it has returned, with the input as its
\* captured bytes
C9_RoundTripAnyLength ==
    IsCatRoundTrip =>
      \/ pc = "returned" /\ proc.stdout = Bytes(SourceBytes(ThePipeline.stdin))
      \/ pc \notin {"returned", "raised"} /\ ENABLED Next

\* C10: stages are spawned in order, no stage but the last is waited for,
\* nothing has been waited for when the last stage is spawned, and the wait
\* for the last stage ends once that stage has exited
C10_OnlyLastWaited ==
    /\ \A k \in 1..Len(procs) : procs[k].stage = k - 1
    /\ \A k \in 1..Len(procs) :
         procs[k].stage < NStages - 1 => procs[k].method = "start" /\ k \notin waited
    /\ pc = "wait" => Len(procs) = NStages /\ waited = {}
    /\ pc = "returned" => waited = {NStages}
    /\ (pc = "wait" /\ procs[NStages].state = "exited") => ENABLED Wait

\* a run of two stages has returned while its first stage is running
C10_Witness ==
    /\ pc = "returned"
    /\ NStages = 2
    /\ procs[1].state = "running"
    /\ procs[2].state = "exited"
    /\ waited = {2}

\* what holds in every state for C6
C6_Always ==
    /\ nset <= 1
    /\ nset = 1 <=> ~IsNone(ThePipeline.stdin)
    /\ (err # Nil /\ err.type = "AssertionError") =>
         /\ pc = "raised"
         /\ procs = <<>>
         /\ ~IsNone(ThePipeline.stdin)

\* what holds of every step for C6: a failure at `<` is of a Pipeline that
\* has an input and changes nothing; a change of input is of a Pipeline
\* that had none, and keeps the stages
C6_Step ==
    /\ (pc = "build" /\ pc' = "raised") =>
         /\ ~IsNone(ThePipeline.stdin)
         /\ cur' = cur
         /\ procs' = <<>>
    /\ ThePipeline'.stdin # ThePipeline.stdin =>
         /\ IsNone(ThePipeline.stdin)
         /\ ThePipeline'.commands = ThePipeline.commands

\* C6: `<` on a Pipeline that has an input fails at once, before any process
\* is spawned; on one without it gives a Pipeline with that input and the
\* same stages; so an input is set at most once
C6_InputSetOnce == []C6_Always /\ [][C6_Step]_vars

\* a second `<` has failed on a Pipeline whose input is the empty text
C6_Witness ==
    /\ err # Nil
    /\ err.type = "AssertionError"
    /\ ThePipeline.stdin = Text(<<>>)
    /\ procs = <<>>

----------------------------------------------------------------------------
(* FlattenSpec and its claims. *)

BInitIdle == bsh = Nil /\ bcmd = Nil /\ blast = Nil /\ bhist = <<>>

FlattenNext == DoFlatten

FlattenStart == FlattenInit /\ BInitIdle /\ RInitIdle /\ XInitIdle

FlattenSpec == FlattenStart /\ [][FlattenNext]_vars

\* underscores to hyphens, as the claims state it
Hyphenated(name) == [k \in 1..Len(name) |-> IF name[k] = "_" THEN "-" ELSE name[k]]

\* the tokens C2 states for the option k = v
C2_Tokens(k, v) ==
    IF v = True
    THEN IF Len(k) = 1 THEN <<Str(<<"-">> \o k)>>
         ELSE <<Str(<<"-", "-">> \o Hyphenated(k))>>
    ELSE IF Len(k) = 1 THEN <<Str(<<"-">> \o k), Str(PyStr(v))>>
    ELSE <<Str(<<"-", "-">> \o Hyphenated(k) \o <<"=">> \o PyStr(v))>>

\* C2: the argument vector is the program name, then the tokens of each
\* option in insertion order (-k, --kebab, -k value, --kebab=value), and
\* only then the positional tokens
C2_OptionTokens ==
    fout.t = "list" =>
      LET opts == fcmd.argv.kwargs
          exp == Concat([k \in 1..Len(opts) |-> C2_Tokens(opts[k][1], opts[k][2])])
      IN  /\ Len(fout.e) >= 1 + Len(exp)
          /\ fout.e[1] = Str(fcmd.program)
          /\ SubSeq(fout.e, 2, 1 + Len(exp)) = exp

\* flattened: a valued one-character option, then a valued option with an
\* underscore in its name, before a positional
C2_Witness ==
    /\ fout.t = "list"
    /\ fcmd.argv.kwargs = <<<<(<<"x">>), Str(<<"v">>)>>, <<(<<"f", "_", "b">>), PyInt(1)>>>>
    /\ fcmd.argv.args = <<Str(<<"a">>)>>
    /\ fout.e = <<Str(Echo), Str(<<"-", "x">>), Str(<<"v">>),
                Str(<<"-", "-", "f", "-", "b", "=", "1">>), Str(<<"a">>)>>

\* the tokens C3 states for the positional value v
C3_Tokens(v) ==
    CASE v = False \/ v = None -> <<>>
      [] v.t \in {"str", "byteslit"} -> <<v>>
      [] v.t \in {"list", "tuple"} -> [k \in 1..Len(v.e) |-> Str(PyStr(v.e[k]))]
      [] OTHER -> <<Str(PyStr(v))>>

\* C3: the argument vector ends with the tokens of the positional values in
\* order: nothing for false and none, a string or byte string itself, one
\* token per element of a collection (no recursion), the string form of
\* anything else
C3_PositionalTokens ==
    fout.t = "list" =>
      LET exp == Concat([k \in 1..Len(fcmd.argv.args) |-> C3_Tokens(fcmd.argv.args[k])])
      IN  /\ Len(fout.e) >= 1 + Len(exp)
          /\ SubSeq(fout.e, Len(fout.e) - Len(exp) + 1, Len(fout.e)) = exp

\* flattened: the positionals ("a", ["b", "c"], none) give a, b, c
C3_Witness ==
    /\ fout.t = "list"
    /\ fcmd.argv.args = <<Str(<<"a">>), List(<<Str(<<"b">>), Str(<<"c">>)>>), None>>
    /\ fcmd.argv.kwargs = <<>>
    /\ fout.e = <<Str(Echo), Str(<<"a">>), Str(<<"b">>), Str(<<"c">>)>>

----------------------------------------------------------------------------
(* BuildSpec: a Context is configured, a Command is made from it and       *)
(* configured in turn.  blast records the last call and bhist the names of *)
(* the calls so far.                                                       *)

\* launch parameters given to a Context or through the named setter
ConfigItems ==
    { <<"stderr", DEVNULL>>, <<"stderr", None>>, <<"cwd", StrPath("/a")>>,
      <<"cwd", StrPath("/b")>> }

\* environment mappings
Envs == { Dict(<<<<"foo", "bar">>>>), Dict(<<<<"baz", "qux">>>>) }

BuildInit ==
    /\ bsh = Shell(EmptyArguments, None)
    /\ bcmd = Nil
    /\ blast = Nil
    /\ bhist = <<>>

Called(op, self, arg, failed, result) ==
    [op |-> op, self |-> self, arg |-> arg, failed |-> failed, result |-> result]

\* bsh = bsh(**{kv[1]: kv[2]})
BShellCall(kv) ==
    /\ bcmd = Nil /\ Len(bhist) < MaxOps
    /\ bsh' = ShellCall(bsh, <<>>, <<kv>>)
    /\ blast' = Called("shell_call", bsh, kv, FALSE, bsh')
    /\ bhist' = Append(bhist, "shell_call")
    /\ UNCHANGED <<bcmd, fvars, rvars, xvars>>

\* bsh = bsh @ path
BShellMatmul(path) ==
    /\ bcmd = Nil /\ Len(bhist) < MaxOps
    /\ bsh' = ShellMatmul(bsh, path)
    /\ blast' = Called("shell_matmul", bsh, path, FALSE, bsh')
    /\ bhist' = Append(bhist, "shell_matmul")
    /\ UNCHANGED <<bcmd, fvars, rvars, xvars>>

\* bsh = bsh % env
BShellMod(env) ==
    /\ bcmd = Nil /\ Len(bhist) < MaxOps
    /\ bsh' = ShellMod(bsh, env)
    /\ blast' = Called("shell_mod", bsh, env, FALSE, bsh')
    /\ bhist' = Append(bhist, "shell_mod")
    /\ UNCHANGED <<bcmd, fvars, rvars, xvars>>

\* bcmd = bsh.echo
BGetattr ==
    /\ bcmd = Nil /\ Len(bhist) < MaxOps
    /\ bcmd' = ShellGetattr(bsh, Echo)
    /\ blast' = Called("getattr", bsh, Str(Echo), FALSE, bcmd')
    /\ bhist' = Append(bhist, "getattr")
    /\ UNCHANGED <<bsh, fvars, rvars, xvars>>

\* bcmd = bcmd('a', x=True)
BCall ==
    /\ bcmd # Nil /\ Len(bhist) < MaxOps
    /\ bcmd' = CommandCall(bcmd, <<Str(<<"a">>)>>, <<<<(<<"x">>), True>>>>)
    /\ blast' = Called("call", bcmd, Str(<<"a">>), FALSE, bcmd')
    /\ bhist' = Append(bhist, "call")
    /\ UNCHANGED <<bsh, fvars, rvars, xvars>>

\* bcmd = getattr(bcmd, kv[1])(kv[2])
BSetter(kv) ==
    /\ bcmd # Nil /\ Len(bhist) < MaxOps
    /\ bcmd' = ProxyCall(bcmd, kv[1], kv[2])
    /\ blast' = Called("setter", bcmd, kv, FALSE, bcmd')
    /\ bhist' = Append(bhist, "setter")
    /\ UNCHANGED <<bsh, fvars, rvars, xvars>>

\* bcmd = bcmd @ path
BMatmul(path) ==
    /\ bcmd # Nil /\ Len(bhist) < MaxOps
    /\ bcmd' = CommandMatmul(bcmd, path)
    /\ blast' = Called("matmul", bcmd, path, FALSE, bcmd')
    /\ bhist' = Append(bhist, "matmul")
    /\ UNCHANGED <<bsh, fvars, rvars, xvars>>

\* bcmd = bcmd % env
BMod(env) ==
    /\ bcmd # Nil /\ Len(bhist) < MaxOps
    /\ bcmd' = CommandMod(bcmd, env)
    /\ blast' = Called("mod", bcmd, env, FALSE, bcmd')
    /\ bhist' = Append(bhist, "mod")
    /\ UNCHANGED <<bsh, fvars, rvars, xvars>>

\* bcmd = bcmd.join(); a failed assertion leaves bcmd as it was
BJoin ==
    /\ bcmd # Nil /\ Len(bhist) < MaxOps
    /\ IF JoinAllowed(bcmd)
       THEN /\ bcmd' = CommandJoin(bcmd)
            /\ blast' = Called("join", bcmd, None, FALSE, bcmd')
       ELSE /\ bcmd' = bcmd
            /\ blast' = Called("join", bcmd, None, TRUE, Nil)
    /\ bhist' = Append(bhist, "join")
    /\ UNCHANGED <<bsh, fvars, rvars, xvars>>

BuildNext ==
    \/ \E kv \in ConfigItems : BShellCall(kv)
    \/ BShellMatmul(StrPath("/b"))
    \/ \E env \in Envs : BShellMod(env)
    \/ BGetattr
    \/ BCall
    \/ \E kv \in ConfigItems : BSetter(kv)
    \/ BMatmul(StrPath("/b"))
    \/ \E env \in Envs : BMod(env)
    \/ BJoin

BuildStart == BuildInit /\ FInitIdle /\ RInitIdle /\ XInitIdle

BuildSpec == BuildStart /\ [][BuildNext]_vars

\* C7: join() fails exactly when the configuration of the Command, with what
\* it took from its Context, binds stderr; otherwise the result has the
\* program and arguments of the Command and its configuration with stderr
\* bound to STDOUT and nothing else changed; a join() right after a join()
\* fails
C7_JoinOnceOnly ==
    (blast # Nil /\ blast.op = "join") =>
      LET old == blast.self.popen.kwargs
          bound == \E k \in 1..Len(old) : old[k][1] = "stderr"
      IN  /\ blast.failed <=> bound
          /\ ~blast.failed =>
               LET new == blast.result.popen.kwargs
               IN  /\ blast.result.program = blast.self.program
                   /\ blast.result.argv = blast.self.argv
                   /\ blast.result.popen.args = blast.self.popen.args
                   /\ new = Append(old, <<"stderr", STDOUT>>)
          /\ (Len(bhist) >= 2 /\ bhist[Len(bhist) - 1] = "join") => blast.failed

\* join() right after a join() that went through has failed
C7_Witness ==
    /\ blast # Nil
    /\ blast.op = "join"
    /\ blast.failed
    /\ Len(bhist) >= 2
    /\ bhist[Len(bhist) - 1] = "join"
    /\ Get(blast.self.popen.kwargs, "stderr") = STDOUT

----------------------------------------------------------------------------
(* HeapSpec: the builder calls on the objects of the Python process.  An   *)
(* object is an entry of heap and a reference is its index; dicts and      *)
(* lists are objects of their own, tuples are values.  Every call leaves   *)
(* its result as the last object of the heap.                              *)

\* the most builder calls in one run of HeapSpec
MaxCalls == 3

\* the dict `{}` that is the default of Arguments.__init__(kwargs)
DefaultKwargs == 1
\* the Arguments() that is the default of Shell.__init__(popen)
ShellDefaultPopen == 2
\* the Arguments() that is the default of Command.__init__(argv)
CommandDefaultArgv == 3

\* the objects by type
ArgumentsObj(args, kwargs) == [t |-> "Arguments", args |-> args, kwargs |-> kwargs]
ShellObj(popen, stdout_arg) == [t |-> "Shell", popen |-> popen, stdout |-> stdout_arg]
CommandObj(program, popen, argv) ==
    [t |-> "Command", program |-> program, popen |-> popen, argv |-> argv]
PipelineObj(commands, stdin_arg) ==
    [t |-> "Pipeline", commands |-> commands, stdin |-> stdin_arg]

\* the address of the object made last
Newest(h) == Len(h)

RECURSIVE View(_, _)
\* the value of the object at address a, with every reference followed
View(h, a) ==
    CASE h[a].t = "dict" -> h[a].d
      [] h[a].t = "list" -> [k \in 1..Len(h[a].e) |-> View(h, h[a].e[k])]
      [] h[a].t = "Arguments" -> Arguments(h[a].args, View(h, h[a].kwargs))
      [] h[a].t = "Shell" -> Shell(View(h, h[a].popen), h[a].stdout)
      [] h[a].t = "Command" ->
           Command(h[a].program, View(h, h[a].popen), View(h, h[a].argv))
      [] h[a].t = "Pipeline" -> Pipeline(View(h, h[a].commands), h[a].stdin)

\* an Arguments.__call__ that updates the dict of self and shares it
ArgumentsCallInPlace(h, self, args, kwargs) ==
    LET h1 == [h EXCEPT ![h[self].kwargs].d = DictMerge(@, kwargs)]
    IN  Append(h1, ArgumentsObj(h[self].args \o args, h[self].kwargs))

\* Arguments.__call__: a new dict {**self.kwargs, **kwargs}, a new tuple, a
\* new Arguments
ArgumentsCallAt(h, self, args, kwargs) ==
    LET h1 == Append(h, Dict(DictMerge(h[h[self].kwargs].d, kwargs)))
    IN  Append(h1, ArgumentsObj(h[self].args \o args, Newest(h1)))

\* Shell.__call__
ShellCallAt(h, self, args, kwargs) ==
    LET h1 == ArgumentsCallAt(h, h[self].popen, args, kwargs)
    IN  Append(h1, ShellObj(Newest(h1), h[self].stdout))

\* Shell.__matmul__
ShellMatmulAt(h, self, path) == ShellCallAt(h, self, <<>>, <<<<"cwd", path>>>>)

\* Shell.__mod__
ShellModAt(h, self, env) == ShellCallAt(h, self, <<>>, <<<<"env", EnvironOr(env)>>>>)

\* Shell.__getattr__: the Command shares the popen of the Shell and takes
\* the default argv
ShellGetattrAt(h, self, program) ==
    Append(h, CommandObj(program, h[self].popen, CommandDefaultArgv))

\* Command.__call__
CommandCallAt(h, self, args, kwargs) ==
    LET h1 == ArgumentsCallAt(h, h[self].argv, args, kwargs)
    IN  Append(h1, CommandObj(h[self].program, h[self].popen, Newest(h1)))

\* Proxy.__call__
ProxyCallAt(h, c, kwarg, value) ==
    LET h1 == ArgumentsCallAt(h, h[c].popen, <<>>, <<<<kwarg, value>>>>)
    IN  Append(h1, CommandObj(h[c].program, Newest(h1), h[c].argv))

\* Command.__matmul__
CommandMatmulAt(h, self, path) == ProxyCallAt(h, self, "cwd", path)

\* Command.__mod__
CommandModAt(h, self, env) == ProxyCallAt(h, self, "env", EnvironOr(env))

\* Command.join, past its assertion
CommandJoinAt(h, self) == ProxyCallAt(h, self, "stderr", STDOUT)

\* Pipeline([x]) for a Command x; a Pipeline is itself
pipeAt(h, x) ==
    IF h[x].t = "Pipeline" THEN h
    ELSE LET h1 == Append(h, List(<<x>>))
         IN  Append(h1, PipelineObj(Newest(h1), None))

\* the address of pipe(x) in pipeAt(h, x)
pipeOf(h, x) == IF h[x].t = "Pipeline" THEN x ELSE Newest(pipeAt(h, x))

\* Pipeline.__or__, Command.__or__: a new list self.commands + pipe(tail).commands
PipelineOrAt(h, self, tail) ==
    LET h1 == pipeAt(h, self)
        p == pipeOf(h, self)
        h2 == pipeAt(h1, tail)
        q == pipeOf(h1, tail)
        h3 == Append(h2, List(h2[h2[p].commands].e \o h2[h2[q].commands].e))
    IN  Append(h3, PipelineObj(Newest(h3), h2[p].stdin))

\* Pipeline.__lt__, Command.__lt__, past the assertion: the new Pipeline
\* shares the list of commands
PipelineLtAt(h, self, stdin_arg) ==
    LET h1 == pipeAt(h, self)
        p == pipeOf(h, self)
    IN  Append(h1, PipelineObj(h1[p].commands, stdin_arg))

\* the two default Argument Sets over the one default dict, and Shell()
HeapInit ==
    /\ heap = << Dict(<<>>), ArgumentsObj(<<>>, DefaultKwargs),
                 ArgumentsObj(<<>>, DefaultKwargs), ShellObj(ShellDefaultPopen, None) >>
    /\ hlast = Nil
    /\ hn = 0

\* the addresses of the objects of type t
Objects(t) == {a \in 1..Len(heap) : heap[a].t = t}

\* a builder call op on self (and on tail, 0 when there is none) went through
\* and left the heap h, or failed its assertion
HCalled(op, self, tail, h, failed) ==
    /\ hn < MaxCalls
    /\ heap' = h
    /\ hlast' = [op |-> op, self |-> self, tail |-> tail, failed |-> failed,
                 result |-> IF failed THEN 0 ELSE Newest(h)]
    /\ hn' = hn + 1
    /\ UNCHANGED butH

\* sh(**{kv[1]: kv[2]})
HShellCall(a, kv) ==
    a \in Objects("Shell") /\ HCalled("shell_call", a, 0, ShellCallAt(heap, a, <<>>, <<kv>>), FALSE)

\* sh @ path
HShellMatmul(a, path) ==
    a \in Objects("Shell") /\ HCalled("shell_matmul", a, 0, ShellMatmulAt(heap, a, path), FALSE)

\* sh % env
HShellMod(a, env) ==
    a \in Objects("Shell") /\ HCalled("shell_mod", a, 0, ShellModAt(heap, a, env), FALSE)

\* sh.program
HGetattr(a, program) ==
    a \in Objects("Shell") /\ HCalled("getattr", a, 0, ShellGetattrAt(heap, a, program), FALSE)

\* c('a', x=True)
HCall(a) ==
    /\ a \in Objects("Command")
    /\ HCalled("call", a, 0,
               CommandCallAt(heap, a, <<Str(<<"a">>)>>, <<<<(<<"x">>), True>>>>), FALSE)

\* getattr(c, kv[1])(kv[2])
HSetter(a, kv) ==
    a \in Objects("Command") /\ HCalled("setter", a, 0, ProxyCallAt(heap, a, kv[1], kv[2]), FALSE)

\* c @ path
HMatmul(a, path) ==
    a \in Objects("Command") /\ HCalled("matmul", a, 0, CommandMatmulAt(heap, a, path), FALSE)

\* c % env
HMod(a, env) ==
    a \in Objects("Command") /\ HCalled("mod", a, 0, CommandModAt(heap, a, env), FALSE)

\* c.join()
HJoin(a) ==
    /\ a \in Objects("Command")
    /\ IF JoinAllowed(View(heap, a))
       THEN HCalled("join", a, 0, CommandJoinAt(heap, a), FALSE)
       ELSE HCalled("join", a, 0, heap, TRUE)

\* a | b, for Commands and Pipelines
HOr(a, b) ==
    /\ a \in Objects("Command") \cup Objects("Pipeline")
    /\ b \in Objects("Command") \cup Objects("Pipeline")
    /\ HCalled("or", a, b, PipelineOrAt(heap, a, b), FALSE)

\* a < source, for a Command or a Pipeline
HLt(a, source) ==
    /\ a \in Objects("Command") \cup Objects("Pipeline")
    /\ IF LtAllowed(pipe(View(heap, a)))
       THEN HCalled("lt", a, 0, PipelineLtAt(heap, a, source), FALSE)
       ELSE HCalled("lt", a, 0, heap, TRUE)

HeapNext ==
    \/ \E a \in Objects("Shell"), kv \in ConfigItems : HShellCall(a, kv)
    \/ \E a \in Objects("Shell") : HShellMatmul(a, StrPath("/b"))
    \/ \E a \in Objects("Shell"), env \in Envs : HShellMod(a, env)
    \/ \E a \in Objects("Shell"), program \in {Echo, Cat} : HGetattr(a, program)
    \/ \E a \in Objects("Command") : HCall(a)
    \/ \E a \in Objects("Command"), kv \in ConfigItems : HSetter(a, kv)
    \/ \E a \in Objects("Command") : HMatmul(a, StrPath("/b"))
    \/ \E a \in Objects("Command"), env \in Envs : HMod(a, env)
    \/ \E a \in Objects("Command") : HJoin(a)
    \/ \E a, b \in Objects("Command") \cup Objects("Pipeline") : HOr(a, b)
    \/ \E a \in Objects("Command") \cup Objects("Pipeline"), source \in {None, Bytes(<<98>>)} :
         HLt(a, source)

HeapStart == HeapInit /\ FInitIdle /\ BInitIdle /\ RInitIdle /\ XIdleExcept("Heap")

HeapSpec == HeapStart /\ [][HeapNext]_vars

\* what holds in every state for C11: the default dict and the two default
\* Argument Sets are empty
C11_Always ==
    heap # <<>> =>
      /\ heap[DefaultKwargs].d = <<>>
      /\ View(heap, ShellDefaultPopen) = EmptyArguments
      /\ View(heap, CommandDefaultArgv) = EmptyArguments

\* what holds of every builder call for C11: every object there was has the
\* value it had, a call that went through returns an object there was not,
\* and a call that failed changes nothing
C11_Step ==
    hn' # hn =>
      /\ Len(heap') >= Len(heap)
      /\ \A a \in 1..Len(heap) : View(heap', a) = View(heap, a)
      /\ ~hlast'.failed => hlast'.result > Len(heap) /\ hlast'.result <= Len(heap')
      /\ hlast'.failed => heap' = heap

\* C11: every builder call returns a new value and leaves the program,
\* Launch Configuration and Argument Set of every operand, and of every other
\* value, unchanged; the shared default Argument Sets stay empty
C11_BuildersDoNotMutate == []C11_Always /\ [][C11_Step]_vars

\* a Command that has the default Argument Set was called with arguments, and
\* the result was joined: the results hold what was given
C11_Witness ==
    /\ hn = 3
    /\ hlast.op = "join"
    /\ ~hlast.failed
    /\ heap[hlast.self].argv # CommandDefaultArgv
    /\ View(heap, hlast.self).argv.args = <<Str(<<"a">>)>>
    /\ View(heap, hlast.result).popen.kwargs = <<<<"stderr", STDOUT>>>>
    /\ heap[hlast.result].popen # ShellDefaultPopen

----------------------------------------------------------------------------
(* CombineSpec: Arguments.__call__ applied to two Argument Sets of a        *)
(* bounded set, and the named setter called twice for one key.             *)

\* the most options, and the most positional values, of a combined Argument Set
MaxKw == 2
MaxPos == 1

\* launch parameters and their values
KwKeys == {"cwd", "stderr"}
KwValues == {StrPath("/a"), DEVNULL}

\* the mappings of at most n entries over KwKeys, in every insertion order
KwDicts(n) ==
    { d \in SeqsUpTo(KwKeys \X KwValues, n) :
        \A j, k \in 1..Len(d) : j # k => d[j][1] # d[k][1] }

CombineInputs ==
    { Arguments(a, d) : a \in SeqsUpTo({Str(<<"a">>), Str(<<"b">>)}, MaxPos), d \in KwDicts(MaxKw) }

CombineInit ==
    /\ cmb \in [a : CombineInputs, b : CombineInputs, key : KwKeys,
                x : KwValues, y : KwValues]
    /\ cres = [sum |-> Nil, twice |-> Nil]

\* cres.sum = a(*b.args, **b.kwargs)
DoCombine ==
    /\ cres.sum = Nil
    /\ cres' = [cres EXCEPT !.sum = ArgumentsCall(cmb.a, cmb.b.args, cmb.b.kwargs)]
    /\ UNCHANGED <<cmb, butC>>

\* cres.twice = c.key(x).key(y), for the Command c = Command('echo', a)('a')
DoSetTwice ==
    /\ cres.twice = Nil
    /\ LET c == CommandCall(Command(Echo, cmb.a, EmptyArguments), <<Str(<<"a">>)>>, <<>>)
       IN  cres' = [cres EXCEPT !.twice = ProxyCall(ProxyCall(c, cmb.key, cmb.x), cmb.key, cmb.y)]
    /\ UNCHANGED <<cmb, butC>>

CombineNext == DoCombine \/ DoSetTwice

CombineStart == CombineInit /\ FInitIdle /\ BInitIdle /\ RInitIdle /\ XIdleExcept("Combine")

CombineSpec == CombineStart /\ [][CombineNext]_vars

\* the keys of a mapping are distinct
DistinctKeys(d) == \A j, k \in 1..Len(d) : j # k => d[j][1] # d[k][1]

\* the value mapping d binds key to
ValueOf(d, key) == d[CHOOSE k \in 1..Len(d) : d[k][1] = key][2]

\* mapping m is mapping a merged with mapping b, the value of b winning
IsMerge(m, a, b) ==
    /\ DistinctKeys(m)
    /\ {m[k][1] : k \in 1..Len(m)} = {a[k][1] : k \in 1..Len(a)} \cup {b[k][1] : k \in 1..Len(b)}
    /\ \A k \in 1..Len(b) : ValueOf(m, b[k][1]) = b[k][2]
    /\ \A k \in 1..Len(a) :
         (\A j \in 1..Len(b) : b[j][1] # a[k][1]) => ValueOf(m, a[k][1]) = a[k][2]

\* C12: A combined with B has the positionals of A and then those of B, and
\* the options of A merged with those of B, the value of B winning on a
\* shared key; a parameter set twice on a Command is bound to the second
\* value, with the other parameters, the program and the arguments unchanged
C12_LastWriteWins ==
    /\ cres # Nil /\ cres.sum # Nil =>
         /\ cres.sum.args = cmb.a.args \o cmb.b.args
         /\ IsMerge(cres.sum.kwargs, cmb.a.kwargs, cmb.b.kwargs)
    /\ cres # Nil /\ cres.twice # Nil =>
         /\ IsMerge(cres.twice.popen.kwargs, cmb.a.kwargs, <<<<cmb.key, cmb.y>>>>)
         /\ cres.twice.popen.args = cmb.a.args
         /\ cres.twice.program = Echo
         /\ cres.twice.argv = Arguments(<<Str(<<"a">>)>>, <<>>)

\* combined: A and B with different positionals and different values for the
\* key they share; and a parameter A binds, set to one value and then another
C12_Witness ==
    /\ cres # Nil /\ cres.sum # Nil /\ cres.twice # Nil
    /\ cmb.a.args = <<Str(<<"a">>)>> /\ cmb.b.args = <<Str(<<"b">>)>>
    /\ cmb.a.kwargs = <<<<"cwd", StrPath("/a")>>, <<"stderr", DEVNULL>>>>
    /\ cmb.b.kwargs = <<<<"stderr", StrPath("/a")>>>>
    /\ cmb.key = "cwd" /\ cmb.x = StrPath("/a") /\ cmb.y = DEVNULL
    /\ cres.sum.kwargs = <<<<"cwd", StrPath("/a")>>, <<"stderr", StrPath("/a")>>>>
    /\ cres.twice.popen.kwargs = <<<<"cwd", DEVNULL>>, <<"stderr", DEVNULL>>>>

----------------------------------------------------------------------------
(* Claims about the environment of a Command or Context, under BuildSpec.  *)

\* C13: the environment of c % env, and of sh % env, binds every key of env
\* to its value in env, and every other key the environment of the operand
\* bound to the value it had there
C13_EnvMergeKeeps ==
    (blast # Nil /\ blast.op \in {"mod", "shell_mod"}) =>
      LET old == blast.self.popen.kwargs
          new == Get(blast.result.popen.kwargs, "env").d
          given == blast.arg.d
      IN  /\ \A k \in 1..Len(given) :
               /\ HasKey(new, given[k][1])
               /\ Get(new, given[k][1]) = given[k][2]
          /\ HasKey(old, "env") =>
               LET had == Get(old, "env").d
               IN  \A k \in 1..Len(had) :
                     ~HasKey(given, had[k][1]) =>
                        /\ HasKey(new, had[k][1])
                        /\ Get(new, had[k][1]) = had[k][2]

----------------------------------------------------------------------------
(* Claims about the streams and the handles of a pipeline run, under Spec. *)

\* the standard input given to process k is the open file f: a handle of the
\* engine, open for reading on the channel the process reads
GivenInput(k, f) ==
    /\ f.t = "file"
    /\ handles[f.h].mode = "r"
    /\ handles[f.h].chan = procs[k].in

\* C14: the first stage reads the resolved input source (the parent's own
\* input when there is none), every later stage reads the pipe the stage
\* before it writes, every stage but the last writes a pipe of its own that
\* no other stage writes, that no stage up to it reads and that no handle of
\* the caller names, the last stage writes the sink; a stage whose own
\* configuration binds stdin or stdout is given the engine's binding in its
\* place, and every other parameter of the configuration is passed on as it
\* is
C14_StageBindings ==
    \A k \in 1..Len(procs) :
      LET p == procs[k]
          own == ThePipeline.commands[k].popen.kwargs
          src == ThePipeline.stdin
          kwin == Get(p.kwargs, "stdin")
          kwout == Get(p.kwargs, "stdout")
      IN  /\ (k = 1 /\ src = None) => kwin = None /\ p.in = TheChan("stdin")
          /\ (k = 1 /\ src.t = "file") => kwin = src /\ p.in = handles[src.h].chan
          /\ (k = 1 /\ src.t = "path") =>
               /\ GivenInput(k, kwin)
               /\ handles[kwin.h].by = "engine"
               /\ chans[p.in].kind = "file"
          /\ (k = 1 /\ src.t \in {"text", "bytes"}) =>
               /\ GivenInput(k, kwin)
               /\ handles[kwin.h].by = "engine"
               /\ chans[p.in].kind = "pipe"
          /\ k > 1 =>
               /\ GivenInput(k, kwin)
               /\ handles[kwin.h].by = "engine"
               /\ p.in = procs[k - 1].out
               /\ chans[p.in].kind = "pipe"
          /\ k < NStages =>
               /\ kwout = PIPE
               /\ chans[p.out].kind = "pipe"
               /\ \A j \in 1..Len(procs) : j # k => procs[j].out # p.out
               /\ \A j \in 1..k : procs[j].in # p.out
               /\ \A h \in 1..Len(handles) :
                    handles[h].by = "caller" => handles[h].chan # p.out
          /\ (k = NStages /\ sink = None) => kwout = DEVNULL /\ p.out = TheChan("null")
          /\ (k = NStages /\ sink.t = "Shell") =>
               /\ kwout = sink.stdout
               /\ sink.stdout = None => p.out = TheChan("stdout")
               /\ sink.stdout = PIPE => chans[p.out].kind = "capture"
               /\ sink.stdout = DEVNULL => p.out = TheChan("null")
          /\ (k = NStages /\ sink.t \in {"strpath", "bytespath", "path"}) =>
               /\ kwout.t = "file"
               /\ handles[kwout.h].by = "engine"
               /\ handles[kwout.h].mode = "w"
               /\ handles[kwout.h].chan = p.out
               /\ chans[p.out].kind = "file"
          /\ (k = NStages /\ sink.t = "file") => kwout = sink /\ p.out = handles[sink.h].chan
          /\ Keys(p.kwargs) = Keys(own) \cup {"stdin", "stdout"}
          /\ \A key \in Keys(own) \ {"stdin", "stdout"} : Get(p.kwargs, key) = Get(own, key)

\* spawned, three stages: a first stage whose own configuration sends its
\* output to the null device, writing a pipe; a second stage whose own
\* configuration reads the null device, reading that pipe and writing a
\* second pipe; a last stage that joins its error stream to its output,
\* reading the second pipe and writing the caller's file
C14_Witness ==
    /\ Len(procs) = 3
    /\ NStages = 3
    /\ ThePipeline.stdin.t = "text"
    /\ HasKey(ThePipeline.commands[1].popen.kwargs, "stdout")
    /\ Get(ThePipeline.commands[1].popen.kwargs, "stdout") = DEVNULL
    /\ Get(procs[1].kwargs, "stdout") = PIPE
    /\ chans[procs[1].out].kind = "pipe"
    /\ HasKey(ThePipeline.commands[2].popen.kwargs, "stdin")
    /\ Get(ThePipeline.commands[2].popen.kwargs, "stdin") = DEVNULL
    /\ Get(procs[2].kwargs, "stdin") # DEVNULL
    /\ procs[2].in = procs[1].out
    /\ procs[2].in # TheChan("null")
    /\ chans[procs[2].out].kind = "pipe"
    /\ procs[2].out # procs[1].out
    /\ procs[3].in = procs[2].out
    /\ HasKey(procs[3].kwargs, "stderr")
    /\ Get(procs[3].kwargs, "stderr") = STDOUT
    /\ sink = FileObj(2)
    /\ procs[3].out = handles[2].chan

\* the pipe ends the engine holds open
OpenPipeEnds ==
    {h \in 1..Len(handles) :
        /\ handles[h].open
        /\ handles[h].by = "engine"
        /\ chans[handles[h].chan].kind = "pipe"}

\* the handle given to process k as its standard input, if it was given one
InputHandles(k) ==
    LET f == Get(procs[k].kwargs, "stdin")
    IN  IF f.t = "file" THEN {f.h} ELSE {}

\* what holds in every state for C15: no handle was closed twice; the input
\* of every stage but the one spawned last is closed; when the engine is
\* about to spawn a stage after the first, the one pipe end it holds open is
\* the read end of the output of the stage before; after the spawn of a
\* stage and before the close, it holds that stage's input and output at most
C15_Always ==
    /\ \A h \in 1..Len(handles) : handles[h].closes <= 1
    /\ \A k \in 1..(Len(procs) - 1) : \A h \in InputHandles(k) : ~handles[h].open
    /\ (pc = "spawn" /\ i >= 1) =>
         /\ Len(procs) = i
         /\ stdin.t = "file"
         /\ OpenPipeEnds = {stdin.h}
         /\ handles[stdin.h].mode = "r"
         /\ handles[stdin.h].chan = procs[i].out
    /\ (pc = "close" /\ proc.t = "Popen") =>
         /\ Len(procs) = i + 1
         /\ OpenPipeEnds \subseteq InputHandles(i + 1) \cup {proc.stdout.h}
         /\ handles[proc.stdout.h].chan = procs[i + 1].out

\* what holds of every step for C15: a read handle is closed only once the
\* stage it was given to is spawned, and before any later stage is
C15_Step ==
    \A h \in 1..Len(handles) :
      (handles[h].open /\ ~handles'[h].open /\ handles[h].mode = "r") =>
        /\ Len(procs) = i + 1
        /\ h \in InputHandles(i + 1)
        /\ procs' = procs

\* C15: the input of a stage is closed after that stage is spawned and
\* before the next one is; when the next one is spawned the engine holds
\* open no pipe end but the read end of the output of the stage before; no
\* handle is closed before the stage that reads it is spawned, or twice
C15_CloseAfterSpawn == []C15_Always /\ [][C15_Step]_vars

\* the engine is about to spawn the second stage of a run with a bytes input:
\* both ends of the input pipe are closed, the first stage's output is open
C15_Witness ==
    /\ pc = "spawn"
    /\ i = 1
    /\ ThePipeline.stdin.t = "bytes"
    /\ Len(ThePipeline.stdin.b) = 2
    /\ ~handles[r.h].open /\ handles[r.h].closes = 1
    /\ ~handles[w.h].open /\ handles[w.h].closes = 1
    /\ OpenPipeEnds = {stdin.h}
    /\ procs[1].state = "running"

----------------------------------------------------------------------------
(* AssocSpec: `|` applied to three operands, grouped to the left and to    *)
(* the right.                                                              *)

\* x | y, for a Command or a Pipeline x (Command.__or__ is Pipeline([self]) | tail)
CommandOr(x, y) == PipelineOr(pipe(x), y)

\* the programs of the Commands that are operands
AssocCommands ==
    { ShellGetattr(RunShell, Echo), ShellGetattr(RunShell, Cat) }

\* the operands: Commands, and Pipelines of up to MaxStages Commands with and
\* without an input
AssocOperands ==
    AssocCommands
      \cup { Pipeline(cs, s) :
               cs \in UNION {[1..n -> AssocCommands] : n \in 1..MaxStages},
               s \in {None, Bytes(<<98>>)} }

AssocInit ==
    /\ ain \in [a : AssocOperands, b : AssocOperands, c : AssocOperands]
    /\ aout = [left |-> Nil, right |-> Nil]

\* aout.left = (a | b) | c
DoLeft ==
    /\ aout.left = Nil
    /\ aout' = [aout EXCEPT !.left = CommandOr(CommandOr(ain.a, ain.b), ain.c)]
    /\ UNCHANGED <<ain, butA>>

\* aout.right = a | (b | c)
DoRight ==
    /\ aout.right = Nil
    /\ aout' = [aout EXCEPT !.right = CommandOr(ain.a, CommandOr(ain.b, ain.c))]
    /\ UNCHANGED <<ain, butA>>

AssocNext == DoLeft \/ DoRight

AssocStart == AssocInit /\ FInitIdle /\ BInitIdle /\ RInitIdle /\ XIdleExcept("Assoc")

AssocSpec == AssocStart /\ [][AssocNext]_vars

\* the stages of an operand: a Command is one stage
Stages(x) == IF x.t = "Pipeline" THEN x.commands ELSE <<x>>

\* C16: (a | b) | c and a | (b | c) are Pipelines of the same stages in the
\* same order: the stages of a, then those of b, then those of c
C16_PipeAssociative ==
    /\ (aout # Nil /\ aout.left # Nil) =>
         /\ aout.left.t = "Pipeline"
         /\ aout.left.commands = Stages(ain.a) \o Stages(ain.b) \o Stages(ain.c)
    /\ (aout # Nil /\ aout.right # Nil) =>
         /\ aout.right.t = "Pipeline"
         /\ aout.right.commands = Stages(ain.a) \o Stages(ain.b) \o Stages(ain.c)
    /\ (aout # Nil /\ aout.left # Nil /\ aout.right # Nil) =>
         aout.left.commands = aout.right.commands

\* composed both ways: a Command, a Pipeline of two stages with an input,
\* and the same Command again, four stages in all
C16_Witness ==
    /\ aout # Nil /\ aout.left # Nil /\ aout.right # Nil
    /\ ain.a = ShellGetattr(RunShell, Echo)
    /\ ain.b = Pipeline(<<ShellGetattr(RunShell, Cat), ShellGetattr(RunShell, Echo)>>,
                        Bytes(<<98>>))
    /\ ain.c = ShellGetattr(RunShell, Echo)
    /\ Len(aout.left.commands) = 4
    /\ aout.right.commands[1] = ain.a
    /\ aout.right.commands[2] = ShellGetattr(RunShell, Cat)
    /\ aout.right.commands[4] = ain.a

\* what holds in every state for C17: the input of a right operand is open,
\* was never closed, has its content, and is the input of no process; a
\* Pipeline composed with a right operand that has an input, and given no
\* input with `<`, has none, and its first stage reads the parent's input;
\* and an error of its run is one its own stages and input account for
C17_Always ==
    pc # "off" =>
      LET h == TailInput.h
          had == lasttail # Nil /\ ~IsNone(pipe(lasttail).stdin)
      IN  /\ handles[h].open
          /\ handles[h].closes = 0
          /\ chans[handles[h].chan].buf = TailContent
          /\ stdin # TailInput
          /\ \A k \in 1..Len(procs) :
               /\ procs[k].in # handles[h].chan
               /\ Get(procs[k].kwargs, "stdin") # TailInput
          /\ (had /\ nset = 0) =>
               /\ IsNone(ThePipeline.stdin)
               /\ procs # <<>> => procs[1].in = TheChan("stdin")
          /\ (had /\ err # Nil) =>
               \/ /\ err.type = "AssertionError"
                  /\ ~IsNone(ThePipeline.stdin)
               \/ /\ err.type = "FileNotFoundError"
                  /\ \E k \in 1..NStages : ThePipeline.commands[k].program \notin Installed
               \/ /\ err.type = "CalledProcessError"
                  /\ Len(procs) = NStages
                  /\ procs[NStages].status # 0

\* what holds of every composition for C17: the result has the stages of
\* the left operand and then those of the right, and the input of the left
\* operand, and no error is raised
C17_Step ==
    (pc = "build" /\ lasttail' # lasttail) =>
      /\ ThePipeline'.commands = ThePipeline.commands \o pipe(lasttail').commands
      /\ ThePipeline'.stdin = ThePipeline.stdin
      /\ pc' = "build"
      /\ err' = err

\* C17: p | q has the input of p; an input of q is dropped without an error,
\* when composing and when running, and a run of p | q never opens, reads or
\* closes it
C17_RightInputDropped == []C17_Always /\ [][C17_Step]_vars

\* a run of p | q has returned, p with a bytes input and q with the caller's
\* open file as its input: the output is that of p's input through q
C17_Witness ==
    /\ pc = "returned"
    /\ lasttail = Pipeline(<<ShellGetattr(RunShell, Cat)>>, TailInput)
    /\ NStages = 2
    /\ ThePipeline.commands[1].program = Cat
    /\ ThePipeline.stdin = Bytes(<<97, 98>>)
    /\ SinkIsCapture
    /\ proc.stdout = Bytes(<<97, 98>>)
    /\ handles[TailInput.h].open

----------------------------------------------------------------------------
(* ForgiveSpec (src/src/shush/pytest.py): a `with forgive(predicate)` block *)
(* whose body raises an error or nothing, for a predicate that is one      *)
(* FunctionPredicate or two joined by `|` or `&`.                          *)

\* the match object re.search returns when the pattern is found
Match == [t |-> "match"]

\* what one predicate returns: a bool, or what re.search returns
Results == {True, False, Match, None}

\* bool(v) taken to hold of True alone
TruthyOnlyTrue(v) == v = True

\* bool(v)
Truthy(v) == CASE v.t = "bool" -> v.b [] v.t = "none" -> FALSE [] OTHER -> TRUE

\* not v
PyNot(v) == Bool(~Truthy(v))

\* a == b, for a result a and a bool b: a match object and None equal no bool
PyEq(a, b) == a.t = "bool" /\ a.b = b.b

\* FunctionPredicate(function), for a function that returns p
FunctionPredicate(p) == [kind |-> "leaf", p |-> p]

\* ShortCircuitPredicate(breaker, [p, q]), as BooleanPredicate.__or__ and
\* __and__ make it
ShortCircuitPredicate(breaker, p, q) == [kind |-> "pair", breaker |-> breaker, p |-> p, q |-> q]
PredOr(p, q) == ShortCircuitPredicate(True, p, q)
PredAnd(p, q) == ShortCircuitPredicate(False, p, q)

Predicates ==
    {FunctionPredicate(p) : p \in Results}
      \cup {PredOr(p, q) : p, q \in Results}
      \cup {PredAnd(p, q) : p, q \in Results}

ForgiveInit ==
    /\ gin \in [raises : BOOLEAN, predicate : Predicates]
    /\ gpc = "body"
    /\ gcalls = <<>>
    /\ gval = Nil
    /\ gout = "pending"

\* the body of the block: it raises an error, or the block ends normally
GBody ==
    /\ gpc = "body"
    /\ IF gin.raises
       THEN gpc' = "except" /\ gout' = gout
       ELSE gpc' = "done" /\ gout' = "normal"
    /\ UNCHANGED <<gin, gcalls, gval, butG>>

\* predicate(error) for one FunctionPredicate
GCallLeaf ==
    /\ gpc = "except"
    /\ gin.predicate.kind = "leaf"
    /\ gcalls' = <<"p">>
    /\ gval' = gin.predicate.p
    /\ gpc' = "decide"
    /\ UNCHANGED <<gin, gout, butG>>

\* ShortCircuitPredicate.__call__, the first turn of its loop
GCallFirst ==
    /\ gpc = "except"
    /\ gin.predicate.kind = "pair"
    /\ gcalls' = <<"p">>
    /\ IF PyEq(gin.predicate.p, gin.predicate.breaker)
       THEN gval' = gin.predicate.breaker /\ gpc' = "decide"
       ELSE gval' = gval /\ gpc' = "second"
    /\ UNCHANGED <<gin, gout, butG>>

\* ShortCircuitPredicate.__call__, the second turn of its loop and its end
GCallSecond ==
    /\ gpc = "second"
    /\ gcalls' = Append(gcalls, "q")
    /\ gval' = IF PyEq(gin.predicate.q, gin.predicate.breaker)
               THEN gin.predicate.breaker
               ELSE PyNot(gin.predicate.breaker)
    /\ gpc' = "decide"
    /\ UNCHANGED <<gin, gout, butG>>

\* if not predicate(error): raise error
GDecide ==
    /\ gpc = "decide"
    /\ gout' = IF ~Truthy(gval) THEN "propagated" ELSE "suppressed"
    /\ gpc' = "done"
    /\ UNCHANGED <<gin, gcalls, gval, butG>>

ForgiveNext == GBody \/ GCallLeaf \/ GCallFirst \/ GCallSecond \/ GDecide

ForgiveStart == ForgiveInit /\ FInitIdle /\ BInitIdle /\ RInitIdle /\ XIdleExcept("Forgive")

ForgiveSpec == ForgiveStart /\ [][ForgiveNext]_vars

\* a result that counts as true: True or a match object
CountsTrue(v) == v = True \/ v = Match

\* C18: (p | q)(x) counts as true exactly when p(x) or q(x) does, and
\* (p & q)(x) exactly when both do; p is called first, and q is called only
\* when p has not decided the result
C18_ShortCircuitTruth ==
    (gpc \in {"decide", "done"} /\ gin.raises /\ gin.predicate.kind = "pair") =>
      LET p == gin.predicate.p
          q == gin.predicate.q
          isOr == gin.predicate.breaker = True
      IN  /\ isOr => (CountsTrue(gval) <=> (CountsTrue(p) \/ CountsTrue(q)))
          /\ ~isOr => (CountsTrue(gval) <=> (CountsTrue(p) /\ CountsTrue(q)))
          /\ gcalls = IF isOr = CountsTrue(p) THEN <<"p">> ELSE <<"p", "q">>

\* C19: an error of the body is suppressed exactly when predicate(error)
\* counts as true, and propagates otherwise; when the body raises nothing no
\* predicate is called and the block ends normally
C19_ForgiveIffTruthy ==
    /\ (gpc = "done" /\ gin.raises) =>
         /\ gval # Nil
         /\ gout = "suppressed" <=> CountsTrue(gval)
         /\ gout = "propagated" <=> ~CountsTrue(gval)
    /\ (gpc # "off" /\ ~gin.raises) =>
         /\ gcalls = <<>>
         /\ gval = Nil
         /\ gout \in {"pending", "normal"}
         /\ gpc = "done" => gout = "normal"
    /\ (gpc \notin {"off", "done"}) => gout = "pending"

\* an error was suppressed on a match object, the result of matches()
C19_Witness ==
    /\ gpc = "done"
    /\ gin.raises
    /\ gin.predicate = FunctionPredicate(Match)
    /\ gcalls = <<"p">>
    /\ gout = "suppressed"

====
